---------------------------- MODULE Spec2Model ----------------------------
(***************************************************************************)
(* Request telemetry of go-osinfo-gin (gin-os.go): the package-level       *)
(* Metrics value guarded by one sync.RWMutex, the gin middleware that      *)
(* records every request after c.Next() returns, and the two reporting     *)
(* handlers (metricsHandler, serverUptimeHandler).                         *)
(*                                                                         *)
(* Every request is served by its own goroutine; a goroutine is modelled   *)
(* by a worker that serves one request at a time.  The statements of the   *)
(* middleware and of the handlers are separate steps, and each `x++` /     *)
(* `x += d` is a load followed by a store, so that what the lock protects  *)
(* is decided by the lock and not by the grain of the model.               *)
(***************************************************************************)
EXTENDS Integers, Sequences, FiniteSets, TLC

\* ------------------------------------------------------------- bounds
NumWorkers == 2        \* goroutines serving requests at the same time
MaxRequests == 3       \* requests started in one behaviour
BootTick == 1          \* the clock reading at which the process starts
MaxClock == 3          \* clock readings BootTick..MaxClock, in ticks
TicksPerMilli == 2     \* ticks in one millisecond
MillisPerSec == 1      \* milliseconds in one (scaled) second

Workers == 1..NumWorkers
None == 0              \* no goroutine

\* ------------------------------------------------------------- net/http
StatusOK == 200
StatusInternalServerError == 500
StatusSet == {StatusOK, StatusInternalServerError}

\* The routes of RegisterRoutes, one for each way a request can end: "mem"
\* stands for every handler that answers 200, or 500 on an error (health,
\* uptime, mem, cpu, disk, env); "info" is the one that can panic.
Routes == {"info", "mem", "metrics", "server-uptime"}

VARIABLES
    metrics,    \* the package-level *Metrics: TotalRequests, TotalResponseTime,
                \* StatusCodes, StartTime
    mu,         \* metrics.mu: w = the goroutine inside Lock()..Unlock() (or None),
                \* readers = the goroutines between RLock() and RUnlock()
    now,        \* the process's monotonic clock, in ticks
    pc,         \* where each goroutine stands
    route,      \* the route of the request, until c.Next() has picked its handler
    start,      \* metricsMiddleware's local `start`
    status,     \* c.Writer.Status()
    duration,   \* metricsMiddleware's local `duration`
    reg,        \* the value loaded by the read half of an increment
    payload,    \* metricsHandler's `avg` and gin.H, field by field, then as written
    prevUptime, \* the server_uptime_seconds written last but one
    lastUptime, \* the server_uptime_seconds written last
    \* --- history (read by no action's guard or effect on the program state)
    snapAt,     \* the aggregate as it stood when the goroutine's RLock returned
    recorded,   \* per status, the record sections that ran to Unlock
    sumElapsed, \* the sum of the durations of those record sections
    started,    \* requests started
    finished,   \* requests whose middleware frame was left (returned or unwound)
    onlyMetrics,\* every request so far went to the metrics route
    soloRank    \* the request's rank among the started ones if they all went
                \* to the metrics route and none was in flight when it
                \* started, else 0

vars == <<metrics, mu, now, pc, route, start, status, duration, reg,
          payload, prevUptime, lastUptime, snapAt, recorded, sumElapsed, started, finished,
          onlyMetrics, soloRank>>

\* ------------------------------------------------------------- map[int]int64
EmptyMap == [k \in {} |-> 0]
Get(m, k) == IF k \in DOMAIN m THEN m[k] ELSE 0
Put(m, k, v) == [x \in (DOMAIN m) \cup {k} |-> IF x = k THEN v ELSE m[x]]

RECURSIVE SumOver(_, _)
SumOver(m, S) == IF S = {} THEN 0
                 ELSE LET k == CHOOSE x \in S : TRUE
                      IN  m[k] + SumOver(m, S \ {k})
Sum(m) == SumOver(m, DOMAIN m)

\* ------------------------------------------------------------- time
\* time.Since(t): the monotonic reading now minus t.
SinceSwapped(t) == t - now
Since(t) == now - t

\* Duration.Milliseconds(): integer division, truncating.
Milliseconds(d) == d \div TicksPerMilli

\* Duration.Seconds(): whole seconds plus the fractional rest, as a float;
\* kept as the pair <<seconds, rest in ticks>>, ordered lexicographically.
TicksPerSec == TicksPerMilli * MillisPerSec
Seconds(d) == <<d \div TicksPerSec, d % TicksPerSec>>
SecLeq(a, b) == a[1] < b[1] \/ (a[1] = b[1] /\ a[2] <= b[2])

\* ------------------------------------------------------------- float64
RECURSIVE GCD(_, _)
GCD(a, b) == IF b = 0 THEN a ELSE GCD(b, a % b)

\* A float64 quotient is kept as the reduced fraction <<num, den>>; 0/0 is NaN.
NaN == <<0, 0>>
Float0 == <<0, 1>>
FloatDiv(a, b) == IF b = 0 THEN NaN
                  ELSE LET g == GCD(a, b) IN <<a \div g, b \div g>>

\* metricsHandler's average: float64(0) unless TotalRequests > 0.
AverageUnguarded(total, time) == FloatDiv(time, total)
Average(total, time) == IF total > 0 THEN FloatDiv(time, total) ELSE Float0

\* ------------------------------------------------------------- Init
\* var metrics = &Metrics{StatusCodes: make(map[int]int64), StartTime: time.Now()}
PrefilledStatusCodes == [k \in {StatusOK} |-> 0]
InitStatusCodes == EmptyMap

NoPayload == [total |-> -1, avg |-> NaN, codes |-> EmptyMap, written |-> FALSE]
NoSnap == [total |-> -1, time |-> -1, codes |-> EmptyMap, prior |-> -1]

Init ==
    /\ now = BootTick
    /\ metrics = [TotalRequests |-> 0, TotalResponseTime |-> 0,
                  StatusCodes |-> InitStatusCodes, StartTime |-> now]
    /\ mu = [w |-> None, readers |-> {}]
    /\ pc = [w \in Workers |-> "idle"]
    /\ route = [w \in Workers |-> "none"]
    /\ start = [w \in Workers |-> 0]
    /\ status = [w \in Workers |-> StatusOK]
    /\ duration = [w \in Workers |-> 0]
    /\ reg = [w \in Workers |-> 0]
    /\ payload = [w \in Workers |-> NoPayload]
    /\ prevUptime = Seconds(0)
    /\ lastUptime = Seconds(0)
    /\ snapAt = [w \in Workers |-> NoSnap]
    /\ recorded = [s \in StatusSet |-> 0]
    /\ sumElapsed = 0
    /\ started = 0
    /\ finished = 0
    /\ onlyMetrics = TRUE
    /\ soloRank = [w \in Workers |-> 0]

uptime == <<prevUptime, lastUptime>>
locals == <<route, start, status, duration, reg, payload>>
history == <<snapAt, recorded, sumElapsed, started, finished, onlyMetrics,
             soloRank>>

\* ------------------------------------------------------------- the clock
Tick ==
    /\ now < MaxClock
    /\ now' = now + 1
    /\ UNCHANGED <<metrics, mu, pc, locals, uptime, history>>


\* ------------------------------------------------------------- sync.RWMutex
\* RLock blocks while a writer holds or awaits the lock.
RLockAlways == TRUE
RLockFree == mu.w = None

\* Lock first excludes the other writers and the readers still to come ...
LockAlways == TRUE
LockFree == mu.w = None

\* ... and then waits for the readers that hold the lock to leave.
ReadersIgnored == TRUE
ReadersGone == mu.readers = {}

\* Unlock: no writer holds the lock.
StillLocked == mu.w
Unlocked == None

\* RUnlock: the goroutine holds the read lock no more.
NotRUnlocked(w) == mu.readers
RUnlocked(w) == mu.readers \ {w}

\* ------------------------------------------------------------- metricsMiddleware
\* start := time.Now(); c.Next() is about to run the route's handler.
\* Goroutines carry no identity: the request is served by the idle worker of
\* least number.
Start(w, r) ==
    /\ pc[w] = "idle"
    /\ \A v \in Workers : v < w => pc[v] # "idle"
    /\ started < MaxRequests
    /\ pc' = [pc EXCEPT ![w] = "next"]
    /\ route' = [route EXCEPT ![w] = r]
    /\ start' = [start EXCEPT ![w] = now]
    /\ started' = started + 1
    /\ onlyMetrics' = (onlyMetrics /\ r = "metrics")
    /\ soloRank' = [soloRank EXCEPT ![w] =
                      IF /\ onlyMetrics'
                         /\ \A v \in Workers \ {w} : pc[v] = "idle"
                      THEN started + 1 ELSE 0]
    /\ UNCHANGED <<metrics, mu, now, status, duration, reg, payload,
                   uptime, snapAt, recorded, sumElapsed, finished>>

\* duration := time.Since(start).Milliseconds(); start is not read again
Elapsed(w) ==
    /\ pc[w] = "since"
    /\ duration' = [duration EXCEPT ![w] = Milliseconds(Since(start[w]))]
    /\ pc' = [pc EXCEPT ![w] = "lock"]
    /\ start' = [start EXCEPT ![w] = 0]
    /\ UNCHANGED <<metrics, mu, now, route, status, reg, payload,
                   uptime, history>>

\* metrics.mu.Lock(), first half
Lock(w) ==
    /\ pc[w] = "lock"
    /\ LockFree
    /\ mu' = [mu EXCEPT !.w = w]
    /\ pc' = [pc EXCEPT ![w] = "lockwait"]
    /\ UNCHANGED <<metrics, now, locals, uptime, history>>

\* metrics.mu.Lock(), second half
LockAcquired(w) ==
    /\ pc[w] = "lockwait"
    /\ ReadersGone
    /\ pc' = [pc EXCEPT ![w] = "tr_ld"]
    /\ UNCHANGED <<metrics, mu, now, locals, uptime, history>>

\* metrics.TotalRequests++
LoadTotalRequests(w) ==
    /\ pc[w] = "tr_ld"
    /\ reg' = [reg EXCEPT ![w] = metrics.TotalRequests]
    /\ pc' = [pc EXCEPT ![w] = "tr_st"]
    /\ UNCHANGED <<metrics, mu, now, route, start, status, duration,
                   payload, uptime, history>>

StoreTotalRequests(w) ==
    /\ pc[w] = "tr_st"
    /\ metrics' = [metrics EXCEPT !.TotalRequests = reg[w] + 1]
    /\ pc' = [pc EXCEPT ![w] = "rt_ld"]
    /\ UNCHANGED <<mu, now, locals, uptime, history>>

\* metrics.TotalResponseTime += duration
Assigned(r, d) == d
Added(r, d) == r + d

LoadTotalResponseTime(w) ==
    /\ pc[w] = "rt_ld"
    /\ reg' = [reg EXCEPT ![w] = metrics.TotalResponseTime]
    /\ pc' = [pc EXCEPT ![w] = "rt_st"]
    /\ UNCHANGED <<metrics, mu, now, route, start, status, duration,
                   payload, uptime, history>>

StoreTotalResponseTime(w) ==
    /\ pc[w] = "rt_st"
    /\ metrics' = [metrics EXCEPT !.TotalResponseTime = Added(reg[w], duration[w])]
    /\ pc' = [pc EXCEPT ![w] = "sc_ld"]
    /\ UNCHANGED <<mu, now, locals, uptime, history>>

\* metrics.StatusCodes[c.Writer.Status()]++
LoadStatusCode(w) ==
    /\ pc[w] = "sc_ld"
    /\ reg' = [reg EXCEPT ![w] = Get(metrics.StatusCodes, status[w])]
    /\ pc' = [pc EXCEPT ![w] = "sc_st"]
    /\ UNCHANGED <<metrics, mu, now, route, start, status, duration,
                   payload, uptime, history>>

StoreStatusCode(w) ==
    /\ pc[w] = "sc_st"
    /\ metrics' = [metrics EXCEPT
                     !.StatusCodes = Put(metrics.StatusCodes, status[w], reg[w] + 1)]
    /\ pc' = [pc EXCEPT ![w] = "unlock"]
    /\ UNCHANGED <<mu, now, locals, uptime, history>>

\* The goroutine's request is over: its locals are gone.
Leave(w) ==
    /\ pc' = [pc EXCEPT ![w] = "idle"]
    /\ route' = [route EXCEPT ![w] = "none"]
    /\ start' = [start EXCEPT ![w] = 0]
    /\ status' = [status EXCEPT ![w] = StatusOK]
    /\ duration' = [duration EXCEPT ![w] = 0]
    /\ reg' = [reg EXCEPT ![w] = 0]
    /\ payload' = [payload EXCEPT ![w] = NoPayload]
    /\ snapAt' = [snapAt EXCEPT ![w] = NoSnap]
    /\ soloRank' = [soloRank EXCEPT ![w] = 0]
    /\ finished' = finished + 1

\* metrics.mu.Unlock(), and the middleware returns
Unlock(w) ==
    /\ pc[w] = "unlock"
    /\ mu' = [mu EXCEPT !.w = Unlocked]
    /\ recorded' = [recorded EXCEPT ![status[w]] = @ + 1]
    /\ sumElapsed' = sumElapsed + duration[w]
    /\ Leave(w)
    /\ UNCHANGED <<metrics, now, uptime, started, onlyMetrics>>

\* ------------------------------------------------------------- handlers
\* mem.VirtualMemory() fails or not: 500 or 200
memHandler(w) ==
    /\ pc[w] = "next"
    /\ route[w] = "mem"
    /\ route' = [route EXCEPT ![w] = "none"]
    /\ \E s \in StatusSet : status' = [status EXCEPT ![w] = s]
    /\ pc' = [pc EXCEPT ![w] = "since"]
    /\ UNCHANGED <<metrics, mu, now, start, duration, reg, payload,
                   uptime, history>>

\* h, _ := host.Info(): with h non-nil the handler writes 200; with h nil
\* (host.Info failed, the error dropped) h.Hostname panics and the stack
\* unwinds through metricsMiddleware, which defers nothing.
infoHandler(w) ==
    /\ pc[w] = "next"
    /\ route[w] = "info"
    /\ route' = [route EXCEPT ![w] = "none"]
    /\ \/ /\ status' = [status EXCEPT ![w] = StatusOK]
          /\ pc' = [pc EXCEPT ![w] = "since"]
       \/ /\ status' = status
          /\ pc' = [pc EXCEPT ![w] = "unwound"]
    /\ UNCHANGED <<metrics, mu, now, start, duration, reg, payload,
                   uptime, history>>

\* gin.Default()'s Recovery, installed before RegisterRoutes adds the
\* middleware: the panic is recovered upstream, the response is 500.
Recovered(w) ==
    /\ pc[w] = "unwound"
    /\ Leave(w)
    /\ UNCHANGED <<metrics, mu, now, uptime, recorded, sumElapsed, started,
                   onlyMetrics>>

\* uptime := time.Since(metrics.StartTime).Seconds(); c.JSON(200, ...)
serverUptimeHandler(w) ==
    /\ pc[w] = "next"
    /\ route[w] = "server-uptime"
    /\ route' = [route EXCEPT ![w] = "none"]
    /\ lastUptime' = Seconds(Since(metrics.StartTime))
    /\ prevUptime' = lastUptime
    /\ status' = [status EXCEPT ![w] = StatusOK]
    /\ pc' = [pc EXCEPT ![w] = "since"]
    /\ UNCHANGED <<metrics, mu, now, start, duration, reg, payload,
                   history>>

\* metrics.mu.RLock()
RLock(w) ==
    /\ pc[w] = "next"
    /\ route[w] = "metrics"
    /\ route' = [route EXCEPT ![w] = "none"]
    /\ RLockFree
    /\ mu' = [mu EXCEPT !.readers = @ \cup {w}]
    /\ snapAt' = [snapAt EXCEPT ![w] =
                    [total |-> metrics.TotalRequests,
                     time  |-> metrics.TotalResponseTime,
                     codes |-> metrics.StatusCodes,
                     prior |-> Sum(recorded)]]
    /\ pc' = [pc EXCEPT ![w] = "h_avg"]
    /\ UNCHANGED <<metrics, now, start, status, duration, reg, payload, uptime,
                   recorded, sumElapsed, started, finished, onlyMetrics, soloRank>>

\* avg := float64(0); if metrics.TotalRequests > 0 { avg = ... / ... }
ComputeAverage(w) ==
    /\ pc[w] = "h_avg"
    /\ payload' = [payload EXCEPT ![w].avg =
                     Average(metrics.TotalRequests, metrics.TotalResponseTime)]
    /\ pc' = [pc EXCEPT ![w] = "h_H"]
    /\ UNCHANGED <<metrics, mu, now, route, start, status, duration, reg,
                   uptime, history>>

\* gin.H{"total_requests": metrics.TotalRequests, "avg_response_time_ms": avg,
\*       "status_codes": metrics.StatusCodes}: the int64 and the float are
\* copied, the map is held by reference.
BuildH(w) ==
    /\ pc[w] = "h_H"
    /\ payload' = [payload EXCEPT ![w].total = metrics.TotalRequests]
    /\ pc' = [pc EXCEPT ![w] = "h_json"]
    /\ UNCHANGED <<metrics, mu, now, route, start, status, duration, reg,
                   uptime, history>>

\* c.JSON(http.StatusOK, ...): the body is rendered now, the map is read now.
WriteJSON(w) ==
    /\ pc[w] = "h_json"
    /\ payload' = [payload EXCEPT ![w].codes = metrics.StatusCodes,
                                  ![w].written = TRUE]
    /\ status' = [status EXCEPT ![w] = StatusOK]
    /\ pc' = [pc EXCEPT ![w] = "h_ret"]
    /\ UNCHANGED <<metrics, mu, now, route, start, duration, reg, uptime,
                   history>>

\* defer metrics.mu.RUnlock(): runs as metricsHandler returns
RUnlock(w) ==
    /\ pc[w] = "h_ret"
    /\ mu' = [mu EXCEPT !.readers = RUnlocked(w)]
    /\ pc' = [pc EXCEPT ![w] = "since"]
    /\ UNCHANGED <<metrics, now, locals, uptime, history>>

\* ------------------------------------------------------------- specification
\* One step of the goroutine serving a request that has arrived.
Proceed(w) ==
    \/ memHandler(w)
    \/ infoHandler(w)
    \/ Recovered(w)
    \/ serverUptimeHandler(w)
    \/ RLock(w)
    \/ ComputeAverage(w)
    \/ BuildH(w)
    \/ WriteJSON(w)
    \/ RUnlock(w)
    \/ Elapsed(w)
    \/ Lock(w)
    \/ LockAcquired(w)
    \/ LoadTotalRequests(w)
    \/ StoreTotalRequests(w)
    \/ LoadTotalResponseTime(w)
    \/ StoreTotalResponseTime(w)
    \/ LoadStatusCode(w)
    \/ StoreStatusCode(w)
    \/ Unlock(w)

Serve ==
    \/ \E w \in Workers, r \in Routes : Start(w, r)
    \/ \E w \in Workers : Proceed(w)

Next == Tick \/ Serve

Spec == Init /\ [][Next]_vars

\* Fair scheduling: a goroutine that can take its next step takes it (the Go
\* scheduler runs every runnable goroutine); the arrival of a request is never
\* forced.  No guard reads the clock, so which steps are enabled does not
\* depend on it: here the clock stands still.
FairSpec == Init /\ [][Serve]_vars /\ \A w \in Workers : WF_vars(Proceed(w))

\* ------------------------------------------------------------- claims
\* The goroutine is inside the locked section of metricsMiddleware.
InRecord(w) == pc[w] \in {"tr_ld", "tr_st", "rt_ld", "rt_st", "sc_ld", "sc_st", "unlock"}
\* The goroutine is at or past metrics.mu.Lock().
AtRecord(w) == pc[w] \in {"lock", "lockwait"} \/ InRecord(w)
\* The goroutine's request has been through metricsHandler's RLock.
TookSnapshot(w) == snapAt[w] # NoSnap
\* The goroutine holds the read lock and has computed avg.
HasAverage(w) == pc[w] \in {"h_H", "h_json", "h_ret"}

\* C1: whenever some metricsHandler holds the read lock, TotalRequests equals
\* the sum of the values of StatusCodes: no half-applied record is visible.
C1_SnapshotSeesWholeRecords ==
    mu.readers # {} => metrics.TotalRequests = Sum(metrics.StatusCodes)

\* A reader holds the lock after some records, a writer is made to wait.
C1_Witness ==
    \E w, v \in Workers :
        /\ w \in mu.readers
        /\ pc[v] = "lockwait"
        /\ metrics.TotalRequests >= 1
        /\ metrics.TotalRequests = Sum(metrics.StatusCodes)

\* C2: when no record section is in progress, TotalRequests is the number of
\* record sections that ran, and StatusCodes[s] is the number that ran with s.
C2_NoLostUpdate ==
    (\A w \in Workers : ~InRecord(w)) =>
        /\ metrics.TotalRequests = Sum(recorded)
        /\ \A s \in StatusSet : Get(metrics.StatusCodes, s) = recorded[s]

\* Records with both status codes have run, two of them with the same one.
C2_Witness ==
    /\ \A w \in Workers : ~InRecord(w)
    /\ recorded[StatusOK] >= 2
    /\ recorded[StatusInternalServerError] >= 1
    /\ metrics.TotalRequests = 3

\* C3: when no record section is in progress, TotalResponseTime is the sum of
\* the durations the record sections were run with.
C3_ElapsedSumExact ==
    (\A w \in Workers : ~InRecord(w)) => metrics.TotalResponseTime = sumElapsed

\* Two records with a duration of one millisecond each have run.
C3_Witness ==
    /\ \A w \in Workers : ~InRecord(w)
    /\ sumElapsed = 2
    /\ metrics.TotalResponseTime = 2
    /\ metrics.TotalRequests >= 2

\* C4: every request whose processing is over (returned, or panicked and
\* recovered upstream) has been recorded exactly once.
C4_EveryFinishedRequestRecordedOnce ==
    finished = Sum(recorded)

\* C5: the average a metricsHandler has computed is TotalResponseTime over
\* TotalRequests when TotalRequests > 0, and 0 otherwise; it is never NaN.
C5_AverageIsQuotientOrZero ==
    \A w \in Workers :
        HasAverage(w) =>
            LET a == payload[w].avg
                n == metrics.TotalRequests
                t == metrics.TotalResponseTime
            IN  /\ a # NaN
                /\ a[2] > 0
                /\ IF n > 0 THEN a[1] * n = t * a[2] ELSE a = Float0

\* An average that is no whole number: 1 ms over 2 requests.
C5_Witness ==
    \E w \in Workers :
        /\ HasAverage(w)
        /\ metrics.TotalRequests = 2
        /\ metrics.TotalResponseTime = 1
        /\ payload[w].avg = <<1, 2>>

\* C6: a payload written from a snapshot taken before any record has run
\* holds total_requests 0, average 0 and an empty status_codes.
C6_FreshSnapshotIsZero ==
    \A w \in Workers :
        (payload[w].written /\ snapAt[w].prior = 0) =>
            /\ payload[w].total = 0
            /\ payload[w].avg = Float0
            /\ payload[w].codes = EmptyMap

C6_Witness ==
    \E w \in Workers :
        /\ payload[w].written
        /\ snapAt[w].prior = 0
        /\ payload[w].total = 0

C8_StartTimeFixedUptimeMonotone ==
    /\ [][metrics'.StartTime = metrics.StartTime]_vars
    /\ [](/\ SecLeq(Seconds(0), prevUptime)
          /\ SecLeq(prevUptime, lastUptime))

\* Two successive reports, the later one larger, after records have run.
C8_Witness ==
    /\ prevUptime = Seconds(1)
    /\ lastUptime = Seconds(2)
    /\ metrics.TotalRequests >= 1
    /\ metrics.StartTime = BootTick

\* C9: a written payload holds the counters as they stood when its RLock
\* returned, whatever has been recorded since.
C9_PayloadIsOneInstant ==
    \A w \in Workers :
        payload[w].written =>
            /\ payload[w].total = snapAt[w].total
            /\ payload[w].codes = snapAt[w].codes
            /\ payload[w].avg = Average(snapAt[w].total, snapAt[w].time)
            /\ payload[w].total = Sum(payload[w].codes)

\* A payload written from a non-empty aggregate, and a record that ran since.
C9_Witness ==
    \E w \in Workers :
        /\ payload[w].written
        /\ payload[w].total >= 1
        /\ metrics.TotalRequests > payload[w].total
        /\ metrics.StatusCodes # payload[w].codes

\* C10: a request to the metrics route has its payload written and its read
\* lock released before it reaches Lock; with only metrics requests, one
\* after another, the k-th payload holds total_requests = k - 1.
C10_MetricsRequestSnapshotsThenRecords ==
    \A w \in Workers :
        /\ AtRecord(w) => w \notin mu.readers
        /\ (AtRecord(w) /\ TookSnapshot(w)) => payload[w].written
        /\ (/\ payload[w].written
            /\ soloRank[w] > 0
            /\ soloRank[w] = started) => payload[w].total = soloRank[w] - 1

\* The third of three metrics requests in a row is about to unlock.
C10_Witness ==
    \E w \in Workers :
        /\ pc[w] = "unlock"
        /\ TookSnapshot(w)
        /\ onlyMetrics
        /\ soloRank[w] = 3
        /\ payload[w].total = 2
        /\ metrics.TotalRequests = 3

==========================================================================
